---- MODULE Spec2Model ----
(***************************************************************************)
(* Model of the Rego-to-SQL compiler of go-rego-sql: the recursive descent *)
(* of ConvertRegoAst over a residual query set, and the rendering of the   *)
(* resulting sqlast nodes, with the two-attempt equality dispatch of       *)
(* sqlast/equality.go.                                                     *)
(*                                                                         *)
(* Texts (SQL and Rego source strings) are sequences of tokens: string     *)
(* concatenation is sequence concatenation.                                *)
(***************************************************************************)
EXTENDS Integers, Sequences, FiniteSets, TLC

VARIABLES cfg, partial, pc, res, out

vars == <<cfg, partial, pc, res, out>>

(***************************************************************************)
(* Bounds of the explored inputs.                                          *)
(***************************************************************************)
\* Queries of a query set, expressions of a whole query set, arguments of a call.
MaxQueries == 2
MaxExprs == 4
MaxArgs == 3

(***************************************************************************)
(* Rego terms (ast.Term values), by concrete shape.                        *)
(***************************************************************************)
TVar(n) == [t |-> "var", v |-> n]
TRef(path) == [t |-> "ref", xs |-> path]
TString(s) == [t |-> "string", v |-> s]
TNumber(s) == [t |-> "number", v |-> s]
TBoolean(b) == [t |-> "boolean", b |-> b]
TArray(xs) == [t |-> "array", xs |-> xs]
TSet(S) == [t |-> "set", S |-> S]
TObject == [t |-> "object"]
TNull == [t |-> "null"]
TCall(terms) == [t |-> "call", xs |-> terms]

\* An operator term is a reference to the builtin: eq, internal.member_2.
OpRef(name) == TRef(<<TVar(name)>>)
OpMember2 == TRef(<<TVar("internal"), TString("member_2")>>)

\* Expressions: Terms is []*ast.Term (a call), *ast.Term (a single term) or
\* something else (a `some` declaration).
CallExpr(terms) == [shape |-> "call", terms |-> terms]
TermExpr(t) == [shape |-> "term", term |-> t]
SomeExpr == [shape |-> "some"]

(***************************************************************************)
(* The terms the inputs are drawn from.                                    *)
(***************************************************************************)
NumOne == TNumber("1")
NumTwo == TNumber("2")
StrBob == TString("bob")
BoolTrue == TBoolean(TRUE)
BoolFalse == TBoolean(FALSE)
VarX == TVar("x")
RefEmpty == TRef(<<>>)
RefOrgOwner == TRef(<<TVar("input"), TString("object"), TString("org_owner")>>)
RefOwner == TRef(<<TVar("input"), TString("object"), TString("owner")>>)
RefAclGroup == TRef(<<TVar("input"), TString("object"), TString("acl_group_list")>>)
RefDeleted == TRef(<<TVar("input"), TString("post"), TString("deleted")>>)
RefMissing == TRef(<<TVar("input"), TString("missing")>>)

Leaves ==
  {NumOne, NumTwo, StrBob, BoolTrue, BoolFalse, VarX, RefEmpty, RefOwner,
   RefAclGroup, RefDeleted, RefMissing, TObject, TNull}

SetElems == {NumOne, NumTwo, StrBob, RefMissing}

Arrays == {TArray(<<>>), TArray(<<NumOne>>), TArray(<<NumTwo, NumOne>>),
           TArray(<<StrBob, RefMissing>>), TArray(<<RefOwner, NumOne>>),
           TArray(<<TArray(<<NumOne, RefMissing>>)>>)}

Sets == {TSet(S) : S \in SUBSET SetElems}

AllOps ==
  {OpRef("eq"), OpRef("neq"), OpRef("equals"), OpRef("equal"),
   OpRef("notequals"), OpRef("notequal"), OpMember2, OpRef("lt")}

EqOps == {OpRef("eq"), OpRef("neq")}

ArgTerms ==
  (Leaves \ {BoolFalse, TNull})
    \cup {TArray(<<NumOne>>), TArray(<<StrBob, RefMissing>>), TSet({NumTwo, NumOne})}

ExtraArgs == {NumOne, RefMissing}

ArgSeqs ==
  (UNION {[1..n -> ArgTerms] : n \in 0..2})
    \cup (UNION {[1..n -> ExtraArgs] : n \in 3..MaxArgs})

\* Calls of every operator over leaf arguments, with 0..MaxArgs arguments.
ShallowCalls == {TCall(<<op>> \o args) : op \in AllOps, args \in ArgSeqs}

\* Nested equalities: the operands that reach every case of the dispatch.
EqLeaves == {NumOne, NumTwo, BoolTrue}
EqCalls1 == {TCall(<<op, a, b>>) : op \in EqOps, a \in EqLeaves, b \in EqLeaves}
EqTerms1 == EqLeaves \cup EqCalls1
EqCalls2 == {TCall(<<op, a, b>>) : op \in EqOps, a \in EqTerms1, b \in EqTerms1}
EqInner1 ==
  {TCall(<<OpRef("eq"), NumOne, NumTwo>>), TCall(<<OpRef("neq"), NumTwo, NumOne>>),
   TCall(<<OpRef("eq"), NumOne, BoolTrue>>)}
EqInner2 ==
  {TCall(<<op, a, b>>) : op \in EqOps, a \in EqInner1, b \in EqLeaves}
    \cup {TCall(<<op, a, b>>) : op \in EqOps, a \in EqLeaves, b \in EqInner1}
EqOuter == EqLeaves \cup EqInner1
EqCalls3 ==
  {TCall(<<op, a, b>>) : op \in EqOps, a \in EqInner2, b \in EqOuter}
    \cup {TCall(<<op, a, b>>) : op \in EqOps, a \in EqOuter, b \in EqInner2}
MemberCalls ==
  {TCall(<<OpMember2, a, b>>) : a \in {NumOne, RefOwner, RefAclGroup},
                                b \in {TArray(<<NumTwo, NumOne>>), RefAclGroup}}
MixedCalls ==
  {TCall(<<op, a, b>>) : op \in EqOps, a \in MemberCalls \cup {RefDeleted, BoolTrue},
                         b \in EqInner1 \cup {RefDeleted}}

CallTerms == ShallowCalls \cup EqCalls2 \cup EqCalls3 \cup MemberCalls \cup MixedCalls

\* The expressions compiled alone, as the single expression of a single query.
RichExprs ==
  {CallExpr(c.xs) : c \in CallTerms}
    \cup {TermExpr(t) : t \in Leaves \cup Arrays \cup Sets \cup EqCalls1 \cup MemberCalls}
    \cup {SomeExpr}

\* The expressions query sets of several queries and expressions are made of.
SimpleExprs ==
  {TermExpr(BoolTrue),
   CallExpr(<<OpRef("eq"), TCall(<<OpRef("eq"), NumOne, NumTwo>>), RefDeleted>>),
   CallExpr(<<OpRef("neq"), TCall(<<OpRef("eq"), NumOne, NumTwo>>), NumOne>>)}

(***************************************************************************)
(* String(): the Rego text of terms, expressions and query bodies.         *)
(***************************************************************************)
RECURSIVE Join(_, _)
\* The texts of a sequence of texts, separated by sep.
Join(texts, sep) ==
  IF texts = <<>> THEN <<>>
  ELSE IF Len(texts) = 1 THEN texts[1]
  ELSE texts[1] \o sep \o Join(Tail(texts), sep)

\* ast.Compare on the terms sets are made of: by type, numbers by value.
TypeRank(t) ==
  CASE t.t = "null" -> 0
    [] t.t = "boolean" -> 1
    [] t.t = "number" -> 2
    [] t.t = "string" -> 3
    [] t.t = "var" -> 4
    [] t.t = "ref" -> 5
    [] OTHER -> 6

NumVal(s) == IF s = "1" THEN 1 ELSE 2

TermLess(a, b) ==
  \/ TypeRank(a) < TypeRank(b)
  \/ a.t = "number" /\ b.t = "number" /\ NumVal(a.v) < NumVal(b.v)

\* ast.Set.Sorted(): the elements of the set as an ordered array.
Sorted(S) ==
  CHOOSE s \in [1..Cardinality(S) -> S] :
    /\ \A x \in S : \E i \in 1..Cardinality(S) : s[i] = x
    /\ \A i, j \in 1..Cardinality(S) : i < j => TermLess(s[i], s[j])

RECURSIVE TermString(_)
RefTail(seg) ==
  IF seg.t = "string" THEN <<".", seg.v>> ELSE <<"[">> \o TermString(seg) \o <<"]">>

TermString(t) ==
  CASE t.t = "var" -> <<t.v>>
    [] t.t = "ref" ->
         IF t.xs = <<>> THEN <<>>
         ELSE TermString(t.xs[1])
                \o Join([i \in 1..(Len(t.xs) - 1) |-> RefTail(t.xs[i + 1])], <<>>)
    [] t.t = "string" -> <<"\"", t.v, "\"">>
    [] t.t = "number" -> <<t.v>>
    [] t.t = "boolean" -> IF t.b THEN <<"true">> ELSE <<"false">>
    [] t.t = "array" ->
         <<"[">> \o Join([i \in 1..Len(t.xs) |-> TermString(t.xs[i])], <<", ">>) \o <<"]">>
    [] t.t = "set" ->
         IF t.S = {} THEN <<"set()">>
         ELSE <<"{">>
                \o Join([i \in 1..Cardinality(t.S) |-> TermString(Sorted(t.S)[i])], <<", ">>)
                \o <<"}">>
    [] t.t = "object" -> <<"{}">>
    [] t.t = "null" -> <<"null">>
    [] t.t = "call" ->
         TermString(t.xs[1]) \o <<"(">>
           \o Join([i \in 1..(Len(t.xs) - 1) |-> TermString(t.xs[i + 1])], <<", ">>)
           \o <<")">>

ExprString(e) ==
  CASE e.shape = "call" -> TermString(TCall(e.terms))
    [] e.shape = "term" -> TermString(e.term)
    [] OTHER -> <<"some", "x">>

BodyString(q) == Join([i \in 1..Len(q) |-> ExprString(q[i])], <<"; ">>)

(***************************************************************************)
(* sqlast nodes.  The node kinds whose code is equality.go and the number  *)
(* file are modelled from it; the others from the data model of the design.*)
(***************************************************************************)
NilNode == [kind |-> "nil"]
Bool(b) == [kind |-> "AstBoolean", Value |-> b]
String(s) == [kind |-> "AstString", Value |-> s]
Number(source, v) == [kind |-> "AstNumber", Source |-> source, Value |-> v]
Array(source, elems) ==
  [ok |-> TRUE, node |-> [kind |-> "ASTArray", Source |-> source, Value |-> elems],
   err |-> <<>>]
MemberOf(needle, haystack) ==
  [kind |-> "memberOf", Needle |-> needle, Haystack |-> haystack]
Or(source, terms) == [kind |-> "binaryOp", Op |-> "OR", Source |-> source, Terms |-> terms]
And(source, terms) == [kind |-> "binaryOp", Op |-> "AND", Source |-> source, Terms |-> terms]
Column(name, type) == [kind |-> "column", Name |-> name, Type |-> type]

Equality(notEquals, a, b) ==
  [kind |-> "equality", Left |-> a, Right |-> b, Not |-> notEquals]

\* The node kinds, other than equality, that are boolean-valued.
OtherBooleanNode(n) ==
  \/ n.kind \in {"AstBoolean", "memberOf", "binaryOp"}
  \/ n.kind = "column" /\ n.Type = "boolean"

\* n.(sqlast.BooleanNode): the node has the IsBooleanNode method.
IsBooleanNode(n) == n.kind = "equality" \/ OtherBooleanNode(n)

\* The canonical kind of the nodes other than number and equality.
OtherUseAs(n) ==
  IF n.kind = "column" /\ n.Type = "boolean" THEN Bool(FALSE).kind ELSE n.kind

\* UseAs(): the kind a node is dispatched on.
UseAs(n) ==
  CASE n.kind = "AstNumber" -> "AstNumber"
    [] n.kind = "equality" -> "equality"
    [] OTHER -> OtherUseAs(n)

\* other.UseAs().(type) matches `case BooleanNode`.
UseAsBooleanNode(n) ==
  UseAs(n) = "equality" \/ UseAs(n) \in {"AstBoolean", "memberOf", "binaryOp"}

(***************************************************************************)
(* The variable converter: an ordered list of matchers.                    *)
(***************************************************************************)
NewVariableConverter == <<>>
RegisterMatcher(c, ms) == c \o ms
StringVarMatcher(sqlString, path) ==
  [path |-> path, node |-> Column(<<sqlString>>, "string"), enabled |-> TRUE]
BoolVarMatcher(sqlString, path) ==
  [path |-> path, node |-> Column(<<sqlString>>, "boolean"), enabled |-> TRUE]
ACLGroupMatcher(c, column, path) ==
  [path |-> path, node |-> Column(<<column>>, "array"), enabled |-> TRUE]
Disable(m) == [m EXCEPT !.enabled = FALSE]

\* The first enabled matcher that accepts the reference decides.
ConvertVariable(c, ref) ==
  LET hits == {i \in 1..Len(c) : c[i].enabled /\ c[i].path = ref.xs}
  IN IF hits = {} THEN [ok |-> FALSE, node |-> NilNode]
     ELSE [ok |-> TRUE, node |-> c[CHOOSE i \in hits : \A j \in hits : i <= j].node]

aclGroupMatchers(c) ==
  <<ACLGroupMatcher(c, "group_acl", RefAclGroup.xs),
    ACLGroupMatcher(c, "user_acl",
                    <<TVar("input"), TString("object"), TString("acl_user_list")>>)>>

BasicStrings ==
  RegisterMatcher(NewVariableConverter,
    <<StringVarMatcher("organization_id :: text", RefOrgOwner.xs),
      StringVarMatcher("owner_id :: text", RefOwner.xs)>>)

NoACLConverter ==
  RegisterMatcher(BasicStrings,
    [i \in 1..Len(aclGroupMatchers(BasicStrings)) |->
       Disable(aclGroupMatchers(BasicStrings)[i])])

DefaultVariableConverter ==
  RegisterMatcher(BasicStrings, aclGroupMatchers(BasicStrings))

\* The converter of the tests: a boolean column and a string column.
PostConverter ==
  RegisterMatcher(NewVariableConverter,
    <<BoolVarMatcher("deleted", RefDeleted.xs),
      StringVarMatcher("author", <<TVar("input"), TString("post"), TString("author")>>)>>)

ConvertConfig(converter) == [nil |-> FALSE, VariableConverter |-> converter]
NoConverterConfig == [nil |-> TRUE, VariableConverter |-> <<>>]

Configs ==
  {NoConverterConfig, ConvertConfig(NoACLConverter),
   ConvertConfig(DefaultVariableConverter), ConvertConfig(PostConverter)}

(***************************************************************************)
(* The residual-expression compiler.  A result is a node and no error, or  *)
(* no node and an error (the chain of messages, outermost first).          *)
(***************************************************************************)
Ok(node) == [ok |-> TRUE, node |-> node, err |-> <<>>]
Err(msg) == [ok |-> FALSE, node |-> NilNode, err |-> msg]

OpEq == TermString(OpRef("eq"))
OpNeq == TermString(OpRef("neq"))
OpEquals == TermString(OpRef("equals"))
OpEqual == TermString(OpRef("equal"))
OpNotEquals == TermString(OpRef("notequals"))
OpNotEqual == TermString(OpRef("notequal"))
OpInternalMember2 == TermString(OpMember2)

RECURSIVE convertTerm(_, _), convertCall(_, _), convertTermsFrom(_, _, _, _),
          convertElemsFrom(_, _, _, _)

\* The loop of convertTerms, from term i on, with the nodes converted so far.
convertTermsFrom(c, terms, i, result) ==
  LET Step(r) ==
        IF ~r.ok THEN [ok |-> FALSE, nodes |-> <<>>, err |-> <<"term: ">> \o r.err]
        ELSE convertTermsFrom(c, terms, i + 1, Append(result, r.node))
  IN IF i > Len(terms) THEN [ok |-> TRUE, nodes |-> result, err |-> <<>>]
     ELSE Step(convertTerm(c, terms[i]))

\* convertTerms without the check that there are no more terms than expected.
convertTerms_MoreAccepted(c, terms, expected) ==
  IF Len(terms) < expected
  THEN [ok |-> FALSE, nodes |-> <<>>,
        err |-> <<"expected terms, got", ToString(Len(terms))>>]
  ELSE convertTermsFrom(c, terms, 1, <<>>)

convertTerms(c, terms, expected) ==
  IF Len(terms) # expected
  THEN [ok |-> FALSE, nodes |-> <<>>,
        err |-> <<"expected terms, got", ToString(Len(terms))>>]
  ELSE convertTermsFrom(c, terms, 1, <<>>)

\* convertCall converts a function call to a SQL expression.
convertCall(c, call) ==
  LET op == call[1]
      args == IF Len(call) > 1 THEN SubSeq(call, 2, Len(call)) ELSE <<>>
      opString == TermString(op)
      not == opString = OpNeq \/ opString = OpNotEquals \/ opString = OpNotEqual
      BuildEquality(conv) ==
        IF ~conv.ok THEN Err(<<"arguments: ">> \o conv.err)
        ELSE Ok(Equality(not, conv.nodes[1], conv.nodes[2]))
      BuildMemberOf(conv) ==
        IF ~conv.ok THEN Err(<<"arguments: ">> \o conv.err)
        ELSE Ok(MemberOf(conv.nodes[1], conv.nodes[2]))
  IN CASE opString \in {OpNeq, OpEq, OpEquals, OpEqual} ->
            BuildEquality(convertTerms(c, args, 2))
       [] opString = OpInternalMember2 -> BuildMemberOf(convertTerms(c, args, 2))
       [] OTHER -> Err(<<"operator">> \o opString \o <<"not supported">>)

\* The loop of the array case of convertTerm, from element i on.
convertElemsFrom(c, t, i, elems) ==
  LET Step(value) ==
        IF ~value.ok
        THEN [ok |-> FALSE, nodes |-> <<>>,
              err |-> <<"array element", ToString(i), "in">> \o TermString(t)
                        \o <<": ">> \o value.err]
        ELSE convertElemsFrom(c, t, i + 1, Append(elems, value.node))
  IN IF i > Len(t.xs) THEN [ok |-> TRUE, nodes |-> elems, err |-> <<>>]
     ELSE Step(convertTerm(c, t.xs[i]))

\* convertTerm naming a column after a reference no matcher accepts.
convertTerm_Guess(c, term) ==
  LET Variable(conv) ==
        IF ~conv.ok THEN Ok(Column(TermString(term), "boolean")) ELSE Ok(conv.node)
      Elements(elems) ==
        IF ~elems.ok THEN Err(elems.err) ELSE Array(TermString(term), elems.nodes)
  IN CASE term.t = "var" -> Err(<<"var not yet supported">>)
       [] term.t = "ref" ->
            IF Len(term.xs) = 0 THEN Err(<<"empty ref not supported">>)
            ELSE IF c.nil THEN Ok(Column(TermString(term), "boolean"))
            ELSE Variable(ConvertVariable(c.VariableConverter, term))
       [] term.t = "string" -> Ok(String(term.v))
       [] term.t = "number" -> Ok(Number(TermString(term), term.v))
       [] term.t = "boolean" -> Ok(Bool(term.b))
       [] term.t = "array" -> Elements(convertElemsFrom(c, term, 1, <<>>))
       [] term.t = "object" -> Err(<<"object not yet supported">>)
       [] term.t = "set" -> convertTerm(c, TArray(Sorted(term.S)))
       [] term.t = "call" -> convertCall(c, term.xs)
       [] OTHER -> Err(<<term.t, "not yet supported">>)

convertTerm(c, term) ==
  LET Variable(conv) ==
        IF ~conv.ok
        THEN Err(<<"variable">> \o TermString(term) \o <<"cannot be converted">>)
        ELSE Ok(conv.node)
      Elements(elems) ==
        IF ~elems.ok THEN Err(elems.err) ELSE Array(TermString(term), elems.nodes)
  IN CASE term.t = "var" -> Err(<<"var not yet supported">>)
       [] term.t = "ref" ->
            IF Len(term.xs) = 0 THEN Err(<<"empty ref not supported">>)
            ELSE IF c.nil
            THEN Err(<<"no variable converter provided to handle variables">>)
            ELSE Variable(ConvertVariable(c.VariableConverter, term))
       [] term.t = "string" -> Ok(String(term.v))
       [] term.t = "number" -> Ok(Number(TermString(term), term.v))
       [] term.t = "boolean" -> Ok(Bool(term.b))
       [] term.t = "array" -> Elements(convertElemsFrom(c, term, 1, <<>>))
       [] term.t = "object" -> Err(<<"object not yet supported">>)
       [] term.t = "set" -> convertTerm(c, TArray(Sorted(term.S)))
       [] term.t = "call" -> convertCall(c, term.xs)
       [] OTHER -> Err(<<term.t, "not yet supported">>)

\* convertExpression returning whatever node a single term converts to.
convertExpression_AnyTerm(c, e) ==
  LET Call(n) ==
        IF ~n.ok THEN Err(<<"call: ">> \o n.err)
        ELSE IF ~IsBooleanNode(n.node)
        THEN Err(<<"call">> \o ExprString(e) \o <<": not a boolean expression">>)
        ELSE Ok(n.node)
      Term(ty) ==
        IF ~ty.ok
        THEN Err(<<"convert term">> \o TermString(e.term) \o <<": ">> \o ty.err)
        ELSE Ok(ty.node)
  IN IF e.shape = "call" THEN Call(convertCall(c, e.terms))
     ELSE IF e.shape = "term" THEN Term(convertTerm(c, e.term))
     ELSE Err(<<"expression">> \o ExprString(e) \o <<"not supported">>)

convertExpression(c, e) ==
  LET Call(n) ==
        IF ~n.ok THEN Err(<<"call: ">> \o n.err)
        ELSE IF ~IsBooleanNode(n.node)
        THEN Err(<<"call">> \o ExprString(e) \o <<": not a boolean expression">>)
        ELSE Ok(n.node)
      Term(ty) ==
        IF ~ty.ok
        THEN Err(<<"convert term">> \o TermString(e.term) \o <<": ">> \o ty.err)
        ELSE IF ~IsBooleanNode(ty.node)
        THEN Err(<<"convert term">> \o TermString(e.term) \o <<"is not a boolean: ">>)
        ELSE Ok(ty.node)
  IN IF e.shape = "call" THEN Call(convertCall(c, e.terms))
     ELSE IF e.shape = "term" THEN Term(convertTerm(c, e.term))
     ELSE Err(<<"expression">> \o ExprString(e) \o <<"not supported">>)

\* The loop of convertQuery, from expression i on.  `seen` lists the
\* expressions convertExpression has been called on (not program state).
RECURSIVE convertQueryFrom(_, _, _, _, _)
\* convertQueryFrom putting each converted expression before the earlier ones.
convertQueryFrom_Prepend(c, q, i, expressions, seen) ==
  LET Step(exp) ==
        IF ~exp.ok
        THEN [ok |-> FALSE, node |-> NilNode,
              err |-> <<"expression">> \o ExprString(q[i]) \o <<": ">> \o exp.err,
              seen |-> Append(seen, <<i>>)]
        ELSE convertQueryFrom(c, q, i + 1, <<exp.node>> \o expressions,
                              Append(seen, <<i>>))
  IN IF i > Len(q)
     THEN [ok |-> TRUE, node |-> And(BodyString(q), expressions), err |-> <<>>,
           seen |-> seen]
     ELSE Step(convertExpression(c, q[i]))

convertQueryFrom(c, q, i, expressions, seen) ==
  LET Step(exp) ==
        IF ~exp.ok
        THEN [ok |-> FALSE, node |-> NilNode,
              err |-> <<"expression">> \o ExprString(q[i]) \o <<": ">> \o exp.err,
              seen |-> Append(seen, <<i>>)]
        ELSE convertQueryFrom(c, q, i + 1, Append(expressions, exp.node),
                              Append(seen, <<i>>))
  IN IF i > Len(q)
     THEN [ok |-> TRUE, node |-> And(BodyString(q), expressions), err |-> <<>>,
           seen |-> seen]
     ELSE Step(convertExpression(c, q[i]))

convertQuery(c, q) == convertQueryFrom(c, q, 1, <<>>, <<>>)

\* The second loop of ConvertRegoAst, from query i on.
RECURSIVE ConvertQueriesFrom(_, _, _, _, _, _)
ConvertQueriesFrom(c, queries, i, converted, builder, seen) ==
  LET Step(q, conv) ==
        LET here == seen \o [k \in 1..Len(conv.seen) |-> <<i>> \o conv.seen[k]]
        IN IF ~conv.ok
           THEN [ok |-> FALSE, node |-> NilNode,
                 err |-> <<"query">> \o BodyString(q) \o <<": ">> \o conv.err,
                 seen |-> here]
           ELSE IF ~IsBooleanNode(conv.node)
           THEN [ok |-> FALSE, node |-> NilNode,
                 err |-> <<"query">> \o BodyString(q) \o <<": not a boolean expression">>,
                 seen |-> here]
           ELSE ConvertQueriesFrom(c, queries, i + 1, Append(converted, conv.node),
                                   (IF i # 1 THEN builder \o <<"\n">> ELSE builder)
                                     \o BodyString(q),
                                   here)
  IN IF i > Len(queries)
     THEN [ok |-> TRUE, node |-> Or(builder, converted), err |-> <<>>, seen |-> seen]
     ELSE Step(queries[i], convertQuery(c, queries[i]))

\* ConvertRegoAst without the case of the empty query set.
ConvertRegoAst_NoDenyCase(c, queries) ==
  IF \E i \in 1..Len(queries) : Len(queries[i]) = 0
  THEN [ok |-> TRUE, node |-> Bool(TRUE), err |-> <<>>, seen |-> <<>>]
  ELSE ConvertQueriesFrom(c, queries, 1, <<>>, <<>>, <<>>)

\* ConvertRegoAst looking for an empty query in the first place only.
ConvertRegoAst_FirstQueryOnly(c, queries) ==
  IF Len(queries) = 0
  THEN [ok |-> TRUE, node |-> Bool(FALSE), err |-> <<>>, seen |-> <<>>]
  ELSE IF Len(queries[1]) = 0
  THEN [ok |-> TRUE, node |-> Bool(TRUE), err |-> <<>>, seen |-> <<>>]
  ELSE ConvertQueriesFrom(c, queries, 1, <<>>, <<>>, <<>>)

ConvertRegoAst(c, queries) ==
  IF Len(queries) = 0
  THEN [ok |-> TRUE, node |-> Bool(FALSE), err |-> <<>>, seen |-> <<>>]
  ELSE IF \E i \in 1..Len(queries) : Len(queries[i]) = 0
  THEN [ok |-> TRUE, node |-> Bool(TRUE), err |-> <<>>, seen |-> <<>>]
  ELSE ConvertQueriesFrom(c, queries, 1, <<>>, <<>>, <<>>)

(***************************************************************************)
(* Rendering.  The generation context is the list of the errors recorded;  *)
(* a rendering returns its text and the context after it.                  *)
(***************************************************************************)
NewSQLGenerator == [errors |-> <<>>]
AddError(gen, e) == [gen EXCEPT !.errors = Append(@, e)]

equalsOp(not) == IF not THEN "!=" ELSE "="

UnsupportedEquality(a, not, b) ==
  [msg |-> "unsupported equality", left |-> a.kind, op |-> equalsOp(not), right |-> b.kind]

\* The node kinds, other than number and equality, that implement
\* SupportsEquality: none is known to.
OtherSupportsEquality(n) == FALSE

\* n.(SupportsEquality): the node has the EqualsSQLString method.
SupportsEquality(n) == n.kind \in {"AstNumber", "equality"} \/ OtherSupportsEquality(n)

RECURSIVE SQLString(_, _), equalitySQLString(_, _), EqualsSQLString(_, _, _, _),
          SQLStringsFrom(_, _, _, _)

\* The renderings of nodes[i..], in order, each against the context the one
\* before it left.
SQLStringsFrom(nodes, i, gen, texts) ==
  LET Step(r) == SQLStringsFrom(nodes, i + 1, r.gen, Append(texts, r.s))
  IN IF i > Len(nodes) THEN [texts |-> texts, gen |-> gen]
     ELSE Step(SQLString(nodes[i], gen))

AstNumberSQLString(n, gen) == [s |-> <<n.Value>>, gen |-> gen]

\* The rendering of the node kinds other than number and equality.
OtherSQLString(n, gen) ==
  LET ArrayText(rs) ==
        [s |-> <<"ARRAY[">> \o Join(rs.texts, <<", ">>) \o <<"]">>, gen |-> rs.gen]
      MemberText(rs) ==
        IF n.Needle.kind = "column" /\ n.Needle.Type = "array"
           /\ n.Haystack.kind = "ASTArray"
        THEN [s |-> rs.texts[1] \o <<"&&">> \o rs.texts[2], gen |-> rs.gen]
        ELSE [s |-> rs.texts[1] \o <<"=", "ANY(">> \o rs.texts[2] \o <<")">>,
              gen |-> rs.gen]
      OpText(rs) == [s |-> Join(rs.texts, <<n.Op>>), gen |-> rs.gen]
      Texts(nodes) == SQLStringsFrom(nodes, 1, gen, <<>>)
  IN CASE n.kind = "AstBoolean" ->
            [s |-> IF n.Value THEN <<"true">> ELSE <<"false">>, gen |-> gen]
       [] n.kind = "AstString" -> [s |-> <<"'", n.Value, "'">>, gen |-> gen]
       [] n.kind = "column" -> [s |-> n.Name, gen |-> gen]
       [] n.kind = "ASTArray" -> ArrayText(Texts(n.Value))
       [] n.kind = "memberOf" -> MemberText(Texts(<<n.Needle, n.Haystack>>))
       [] n.kind = "binaryOp" -> OpText(Texts(n.Terms))

SQLString(n, gen) ==
  CASE n.kind = "AstNumber" -> AstNumberSQLString(n, gen)
    [] n.kind = "equality" -> equalitySQLString(n, gen)
    [] OTHER -> OtherSQLString(n, gen)

\* The renderings of a then b, as the arguments of one Sprintf.
SQLStringPair(gen, a, b) == SQLStringsFrom(<<a, b>>, 1, gen, <<>>)

basicSQLEquality(gen, not, a, b) ==
  LET Text(rs) == [s |-> rs.texts[1] \o <<equalsOp(not)>> \o rs.texts[2], gen |-> rs.gen]
  IN Text(SQLStringPair(gen, a, b))

AstNumberEqualsSQLString(n, gen, not, other) ==
  LET Done(r) == [ok |-> TRUE, s |-> r.s, gen |-> r.gen]
  IN IF UseAs(other) = "AstNumber" THEN Done(basicSQLEquality(gen, not, n, other))
     ELSE [ok |-> FALSE, s |-> <<>>, gen |-> gen]

equalityEqualsSQLString(e, gen, not, other) ==
  LET Text(rs) ==
        IF UseAs(other) = "AstBoolean"
        THEN [ok |-> TRUE,
              s |-> <<"(">> \o rs.texts[1] \o <<")", equalsOp(not)>> \o rs.texts[2],
              gen |-> rs.gen]
        ELSE [ok |-> TRUE,
              s |-> <<"(">> \o rs.texts[1] \o <<")", equalsOp(not), "(">>
                      \o rs.texts[2] \o <<")">>,
              gen |-> rs.gen]
  IN IF UseAs(other) = "AstBoolean" \/ UseAsBooleanNode(other)
     THEN Text(SQLStringPair(gen, e, other))
     ELSE [ok |-> FALSE, s |-> <<>>, gen |-> gen]

\* eq.EqualsSQLString(cfg, not, other), by the kind of eq.
EqualsSQLString(n, gen, not, other) ==
  IF n.kind = "AstNumber" THEN AstNumberEqualsSQLString(n, gen, not, other)
  ELSE equalityEqualsSQLString(n, gen, not, other)

Unsupported(gen) == [ok |-> FALSE, s |-> <<>>, gen |-> gen]

\* equality.SQLString rendering the sentinel without recording the error.
equalitySQLString_Silent(e, gen) ==
  LET Second(first, right) ==
        IF right.ok THEN [s |-> right.s, gen |-> right.gen, asked |-> first \o <<"right">>]
        ELSE [s |-> <<"EqualityError">>, gen |-> right.gen, asked |-> first \o <<"right">>]
      TryRight(first, g) ==
        IF SupportsEquality(e.Right)
        THEN Second(first, EqualsSQLString(e.Right, g, e.Not, e.Left))
        ELSE [s |-> <<"EqualityError">>, gen |-> g, asked |-> first]
      First(left) ==
        IF left.ok THEN [s |-> left.s, gen |-> left.gen, asked |-> <<"left">>]
        ELSE TryRight(<<"left">>, left.gen)
  IN IF SupportsEquality(e.Left)
     THEN First(EqualsSQLString(e.Left, gen, e.Not, e.Right))
     ELSE TryRight(<<>>, gen)

\* equality.SQLString negating the comparison when it swaps the operands.
equalitySQLString_SwapNegates(e, gen) ==
  LET Second(first, right) ==
        IF right.ok THEN [s |-> right.s, gen |-> right.gen, asked |-> first \o <<"right">>]
        ELSE [s |-> <<"EqualityError">>,
              gen |-> AddError(right.gen, UnsupportedEquality(e.Left, e.Not, e.Right)),
              asked |-> first \o <<"right">>]
      TryRight(first, g) ==
        IF SupportsEquality(e.Right)
        THEN Second(first, EqualsSQLString(e.Right, g, ~e.Not, e.Left))
        ELSE [s |-> <<"EqualityError">>,
              gen |-> AddError(g, UnsupportedEquality(e.Left, e.Not, e.Right)),
              asked |-> first]
      First(left) ==
        IF left.ok THEN [s |-> left.s, gen |-> left.gen, asked |-> <<"left">>]
        ELSE TryRight(<<"left">>, left.gen)
  IN IF SupportsEquality(e.Left)
     THEN First(EqualsSQLString(e.Left, gen, e.Not, e.Right))
     ELSE TryRight(<<>>, gen)

\* equality.SQLString recording the error as soon as the left operand does
\* not resolve the comparison.
equalitySQLString_EagerError(e, gen) ==
  LET Failed(g) == AddError(g, UnsupportedEquality(e.Left, e.Not, e.Right))
      Second(first, right) ==
        IF right.ok THEN [s |-> right.s, gen |-> right.gen, asked |-> first \o <<"right">>]
        ELSE [s |-> <<"EqualityError">>, gen |-> right.gen, asked |-> first \o <<"right">>]
      TryRight(first, g) ==
        IF SupportsEquality(e.Right)
        THEN Second(first, EqualsSQLString(e.Right, Failed(g), e.Not, e.Left))
        ELSE [s |-> <<"EqualityError">>, gen |-> Failed(g), asked |-> first]
      First(left) ==
        IF left.ok THEN [s |-> left.s, gen |-> left.gen, asked |-> <<"left">>]
        ELSE TryRight(<<"left">>, left.gen)
  IN IF SupportsEquality(e.Left)
     THEN First(EqualsSQLString(e.Left, gen, e.Not, e.Right))
     ELSE TryRight(<<>>, gen)

\* `asked` lists the operands whose EqualsSQLString was called, in order
\* (not program state).
equalitySQLString(e, gen) ==
  LET Second(first, right) ==
        IF right.ok THEN [s |-> right.s, gen |-> right.gen, asked |-> first \o <<"right">>]
        ELSE [s |-> <<"EqualityError">>,
              gen |-> AddError(right.gen, UnsupportedEquality(e.Left, e.Not, e.Right)),
              asked |-> first \o <<"right">>]
      TryRight(first, g) ==
        IF SupportsEquality(e.Right)
        THEN Second(first, EqualsSQLString(e.Right, g, e.Not, e.Left))
        ELSE [s |-> <<"EqualityError">>,
              gen |-> AddError(g, UnsupportedEquality(e.Left, e.Not, e.Right)),
              asked |-> first]
      First(left) ==
        IF left.ok THEN [s |-> left.s, gen |-> left.gen, asked |-> <<"left">>]
        ELSE TryRight(<<"left">>, left.gen)
  IN IF SupportsEquality(e.Left)
     THEN First(EqualsSQLString(e.Left, gen, e.Not, e.Right))
     ELSE TryRight(<<>>, gen)

(***************************************************************************)
(* Top-level orchestration: convert, render, and fail if the generation    *)
(* context recorded an error.                                              *)
(***************************************************************************)
NoOutput == [ok |-> FALSE, sql |-> <<>>, err |-> <<"not compiled">>, rendered |-> <<>>,
             errors |-> <<>>]

CompileSQL(c, queries) ==
  LET Rendered(r) ==
        IF r.gen.errors # <<>>
        THEN [ok |-> FALSE, sql |-> <<>>, err |-> <<"sql generation errors">>,
              rendered |-> r.s, errors |-> r.gen.errors]
        ELSE [ok |-> TRUE, sql |-> r.s, err |-> <<>>, rendered |-> r.s, errors |-> <<>>]
      Converted(conv) ==
        IF ~conv.ok
        THEN [ok |-> FALSE, sql |-> <<>>, err |-> conv.err, rendered |-> <<>>,
              errors |-> <<>>]
        ELSE Rendered(SQLString(conv.node, NewSQLGenerator))
  IN Converted(ConvertRegoAst(c, queries))

(***************************************************************************)
(* The state machine: a caller builds a configuration and a residual query *)
(* set, then calls ConvertRegoAst or the whole compilation on it.          *)
(***************************************************************************)
NoResult == [ok |-> FALSE, node |-> NilNode, err |-> <<"not converted">>, seen |-> <<>>]

OnlySimple(queries) ==
  \A i \in 1..Len(queries) : \A j \in 1..Len(queries[i]) : queries[i][j] \in SimpleExprs

RECURSIVE ExprCount(_)
ExprCount(queries) ==
  IF queries = <<>> THEN 0 ELSE Len(Head(queries)) + ExprCount(Tail(queries))

Init ==
  /\ cfg \in Configs
  /\ partial = <<>>
  /\ pc = "input"
  /\ res = NoResult
  /\ out = NoOutput

\* The policy engine's result gets one more (still empty) query.
AddQuery ==
  /\ pc = "input"
  /\ Len(partial) < MaxQueries
  /\ OnlySimple(partial)
  /\ partial' = Append(partial, <<>>)
  /\ UNCHANGED <<cfg, pc, res, out>>

\* The last query gets one more expression.
AddExpr ==
  /\ pc = "input"
  /\ partial # <<>>
  /\ OnlySimple(partial)
  /\ ExprCount(partial) < MaxExprs
  /\ \E e \in SimpleExprs :
       partial' = [partial EXCEPT ![Len(partial)] = Append(@, e)]
  /\ UNCHANGED <<cfg, pc, res, out>>

\* A query set of one query of one expression, of any shape.
AddRichExpr ==
  /\ pc = "input"
  /\ partial = << <<>> >>
  /\ \E e \in RichExprs : partial' = << <<e>> >>
  /\ UNCHANGED <<cfg, pc, res, out>>

ConvertRegoAstCall ==
  /\ pc = "input"
  /\ res' = ConvertRegoAst(cfg, partial)
  /\ pc' = "converted"
  /\ UNCHANGED <<cfg, partial, out>>

CompileSQLCall ==
  /\ pc = "input"
  /\ res' = ConvertRegoAst(cfg, partial)
  /\ out' = CompileSQL(cfg, partial)
  /\ pc' = "compiled"
  /\ UNCHANGED <<cfg, partial>>

Next == AddQuery \/ AddExpr \/ AddRichExpr \/ ConvertRegoAstCall \/ CompileSQLCall

Spec == Init /\ [][Next]_vars

(***************************************************************************)
(* What the properties below speak of.                                     *)
(***************************************************************************)
Called == pc \in {"converted", "compiled"}
NoEmptyQuery == partial # <<>> /\ \A i \in 1..Len(partial) : partial[i] # <<>>
Positions == {<<i, j>> : i \in 1..MaxQueries + 1, j \in 1..MaxExprs + 1}
ExprPositions == {p \in Positions : p[1] <= Len(partial) /\ p[2] <= Len(partial[p[1]])}
ExprAt(p) == partial[p[1]][p[2]]
Before(p, q) == p[1] < q[1] \/ (p[1] = q[1] /\ p[2] < q[2])
Range(f) == {f[i] : i \in DOMAIN f}

\* The terms of an expression, and every term inside a term (the operator of
\* a call and the segments of a reference are not terms of their own).
RECURSIVE TermsIn(_)
TermsIn(t) ==
  {t} \cup
    CASE t.t = "array" -> UNION {TermsIn(t.xs[i]) : i \in 1..Len(t.xs)}
      [] t.t = "set" -> UNION {TermsIn(x) : x \in t.S}
      [] t.t = "call" -> UNION {TermsIn(t.xs[i]) : i \in 2..Len(t.xs)}
      [] OTHER -> {}

TermsOfExpr(e) ==
  CASE e.shape = "call" -> TermsIn(TCall(e.terms))
    [] e.shape = "term" -> TermsIn(e.term)
    [] OTHER -> {}

\* A variable reference no matcher of the configuration accepts.
Unresolvable(t) ==
  /\ t.t = "ref"
  /\ t.xs # <<>>
  /\ \/ cfg.nil
     \/ \A k \in 1..Len(cfg.VariableConverter) :
          ~(cfg.VariableConverter[k].enabled /\ cfg.VariableConverter[k].path = t.xs)

HasUnresolvable == \E p \in ExprPositions : \E t \in TermsOfExpr(ExprAt(p)) : Unresolvable(t)

\* Every node of a tree of nodes.
RECURSIVE SubNodes(_)
SubNodes(n) ==
  {n} \cup
    CASE n.kind = "equality" -> SubNodes(n.Left) \cup SubNodes(n.Right)
      [] n.kind = "memberOf" -> SubNodes(n.Needle) \cup SubNodes(n.Haystack)
      [] n.kind = "ASTArray" -> UNION {SubNodes(n.Value[i]) : i \in 1..Len(n.Value)}
      [] n.kind = "binaryOp" -> UNION {SubNodes(n.Terms[i]) : i \in 1..Len(n.Terms)}
      [] OTHER -> {}

EqualityNodes == {n \in SubNodes(res.node) : n.kind = "equality"}

\* C1: ConvertRegoAst on a query set with no query returns the literal false
\* and no error, whatever the configuration, and the compiled text is `false`.
C1_EmptySetIsFalse ==
  (Called /\ partial = <<>>) =>
    /\ res.ok /\ res.err = <<>> /\ res.node = Bool(FALSE)
    /\ pc = "compiled" => (out.ok /\ out.sql = <<"false">>)

C1_Witness == pc = "compiled" /\ partial = <<>> /\ out.sql = <<"false">> /\ cfg.nil

\* C2: ConvertRegoAst on a query set with a query of no expression, at any
\* position and whatever the other queries hold, returns the literal true and
\* no error, and the compiled text is `true`.
C2_EmptyQueryIsTrue ==
  (Called /\ \E i \in 1..Len(partial) : partial[i] = <<>>) =>
    /\ res.ok /\ res.err = <<>> /\ res.node = Bool(TRUE)
    /\ pc = "compiled" => (out.ok /\ out.sql = <<"true">>)

C2_Witness ==
  /\ pc = "compiled" /\ Len(partial) = 2 /\ partial[2] = <<>> /\ Len(partial[1]) = 2
  /\ ~convertQuery(cfg, partial[1]).ok
  /\ out.sql = <<"true">>

\* C3 as stated: a query set with an unresolvable variable reference anywhere
\* compiles to an error, never to a SQL result.
C3_UnresolvableAlwaysFails ==
  (Called /\ HasUnresolvable) => (~res.ok /\ (pc = "compiled" => ~out.ok))

\* C3, amended: a query set with no empty query and an unresolvable variable
\* reference anywhere compiles to an error and no node, never to a SQL result.
C3_UnresolvableFails ==
  (Called /\ NoEmptyQuery /\ HasUnresolvable) =>
    /\ ~res.ok /\ res.node = NilNode /\ res.err # <<>>
    /\ pc = "compiled" => (~out.ok /\ out.sql = <<>>)

C3_Witness ==
  /\ pc = "compiled" /\ ~cfg.nil /\ ~out.ok
  /\ partial = << <<CallExpr(<<OpRef("eq"), NumOne, TArray(<<StrBob, RefMissing>>)>>)>> >>

\* C4: a compilation ends with a SQL text and no recorded generation error, or
\* with an error and no text; a text holding the EqualityError placeholder is
\* never a successful result.
C4_TextOrError ==
  pc = "compiled" =>
    \/ /\ out.ok /\ out.err = <<>> /\ res.ok
       /\ SQLString(res.node, NewSQLGenerator).gen.errors = <<>>
       /\ out.sql = SQLString(res.node, NewSQLGenerator).s
       /\ "EqualityError" \notin Range(out.sql)
    \/ /\ ~out.ok /\ out.err # <<>> /\ out.sql = <<>>
       /\ ~res.ok \/ SQLString(res.node, NewSQLGenerator).gen.errors # <<>>

C4_Witness ==
  /\ pc = "compiled" /\ res.ok /\ ~out.ok /\ Len(partial) = 2
  /\ "EqualityError" \in Range(out.rendered) /\ "true" \in Range(out.rendered)

(***************************************************************************)
(* Equality dispatch.                                                      *)
(***************************************************************************)
Swapped(e) == Equality(e.Not, e.Right, e.Left)
Resolves(e) == equalitySQLString(e, NewSQLGenerator).s # <<"EqualityError">>
TextOf(n) == SQLString(n, NewSQLGenerator).s
ErrorsOf(n) == SQLString(n, NewSQLGenerator).gen.errors
Wrap(paren, text) == IF paren THEN <<"(">> \o text \o <<")">> ELSE text

\* The renderings of e and of e swapped are one comparison up to the order of
\* its sides: the same operator, the same operand texts, each operand
\* parenthesized in both or in neither.
SameComparison(e) ==
  \E pa, pb \in BOOLEAN :
    LET a == Wrap(pa, TextOf(e.Left))
        b == Wrap(pb, TextOf(e.Right))
        forms == {a \o <<equalsOp(e.Not)>> \o b, b \o <<equalsOp(e.Not)>> \o a}
    IN TextOf(e) \in forms /\ TextOf(Swapped(e)) \in forms

\* The nodes made of numbers and equalities alone: the kinds whose
\* comparison code is equality.go and the number file.
NumbersAndEqualities(n) == \A x \in SubNodes(n) : x.kind \in {"AstNumber", "equality"}

C6_OrderPreserved ==
  (Called /\ NoEmptyQuery /\ res.ok) =>
    /\ res.node.kind = "binaryOp" /\ res.node.Op = "OR"
    /\ Len(res.node.Terms) = Len(partial)
    /\ \A i \in 1..Len(partial) :
         /\ res.node.Terms[i].kind = "binaryOp" /\ res.node.Terms[i].Op = "AND"
         /\ Len(res.node.Terms[i].Terms) = Len(partial[i])
         /\ \A j \in 1..Len(partial[i]) :
              res.node.Terms[i].Terms[j] = convertExpression(cfg, partial[i][j]).node

C6_Witness ==
  /\ Called /\ res.ok /\ Len(partial) = 2
  /\ Len(partial[1]) = 2 /\ Len(partial[2]) = 2
  /\ partial[1][1] # partial[1][2] /\ partial[2][1] # partial[2][2]
  /\ partial[1] # partial[2]
  /\ Cardinality({partial[1][1], partial[1][2], partial[2][1], partial[2][2]}) = 3

\* C7: for an expression that is a single term, if the term converts to a
\* boolean-kind node convertExpression returns exactly that node (a bare
\* boolean variable compiles to just its column), and if it converts to a
\* node of another kind convertExpression returns an error and no node.
C7_BareTerm ==
  \A p \in ExprPositions :
    (Called /\ ExprAt(p).shape = "term") =>
      LET ty == convertTerm(cfg, ExprAt(p).term)
          r == convertExpression(cfg, ExprAt(p))
          alone == partial = << <<ExprAt(p)>> >>
      IN /\ (ty.ok /\ IsBooleanNode(ty.node)) =>
              /\ r.ok /\ r.node = ty.node /\ r.err = <<>>
              /\ alone => (res.ok /\ res.node.Terms[1].Terms[1] = ty.node)
              /\ (alone /\ pc = "compiled" /\ ty.node.kind = "column") =>
                   (out.ok /\ out.sql = ty.node.Name)
         /\ (ty.ok /\ ~IsBooleanNode(ty.node)) =>
              /\ ~r.ok /\ r.node = NilNode /\ r.err # <<>>
              /\ alone => (~res.ok /\ res.node = NilNode)

C7_Witness ==
  /\ pc = "compiled" /\ partial = << <<TermExpr(RefDeleted)>> >>
  /\ out.ok /\ out.sql = <<"deleted">>

\* The calls of the query set: the call expressions and the call terms.
CallsOfExpr(e) == {t \in TermsOfExpr(e) : t.t = "call"}
SupportedOps == {OpRef("eq"), OpRef("neq"), OpRef("equals"), OpRef("equal"), OpMember2}
Failing(p) == ~convertExpression(cfg, ExprAt(p)).ok
FirstFailing == CHOOSE p \in ExprPositions :
                  Failing(p) /\ \A q \in ExprPositions : Failing(q) => ~Before(q, p)
SeenUpTo(p) == {q \in ExprPositions : q = p \/ Before(q, p)}

\* C8: convertCall returns a node only for an operator of the fixed set with
\* exactly two arguments that both convert, and an error and no node in every
\* other case; the error makes the whole ConvertRegoAst fail, and no
\* expression or query after the failing one is converted.
C8_CallFailsFast ==
  /\ Called => \A p \in ExprPositions : \A call \in CallsOfExpr(ExprAt(p)) :
       LET r == convertCall(cfg, call.xs)
           fine == /\ call.xs[1] \in SupportedOps
                   /\ Len(call.xs) = 3
                   /\ convertTerm(cfg, call.xs[2]).ok
                   /\ convertTerm(cfg, call.xs[3]).ok
       IN /\ r.ok <=> fine
          /\ r.ok => (r.node # NilNode /\ r.err = <<>>)
          /\ ~r.ok => (r.node = NilNode /\ r.err # <<>> /\ Failing(p))
  /\ (Called /\ NoEmptyQuery /\ \E p \in ExprPositions : Failing(p)) =>
       /\ ~res.ok /\ res.node = NilNode /\ res.err # <<>>
       /\ Range(res.seen) = SeenUpTo(FirstFailing)
       /\ Len(res.seen) = Cardinality(SeenUpTo(FirstFailing))
       /\ res.seen[Len(res.seen)] = FirstFailing
       /\ pc = "compiled" => ~out.ok

C8_Witness ==
  /\ Called /\ Len(partial) = 2 /\ Len(partial[1]) = 2 /\ Len(partial[2]) = 1
  /\ ExprAt(<<1, 1>>).shape = "call" /\ ~convertCall(cfg, ExprAt(<<1, 1>>).terms).ok
  /\ res.seen = << <<1, 1>> >> /\ ~res.ok

\* C9 as stated: a call with exactly two convertible arguments compiles to an
\* Equality node over the two converted arguments in order, negated for the
\* operators neq, notequals and notequal, not negated for eq, equals and equal.
C9_EqualityOperators ==
  Called => \A p \in ExprPositions : \A call \in CallsOfExpr(ExprAt(p)) :
    LET a == convertTerm(cfg, call.xs[2])
        b == convertTerm(cfg, call.xs[3])
        r == convertCall(cfg, call.xs)
        alone == partial = << <<CallExpr(call.xs)>> >>
    IN (Len(call.xs) = 3 /\ a.ok /\ b.ok) =>
         /\ call.xs[1] \in {OpRef("neq"), OpRef("notequals"), OpRef("notequal")} =>
              /\ r.ok /\ r.node = Equality(TRUE, a.node, b.node)
              /\ alone => (res.ok /\ res.node.Terms[1].Terms[1] = r.node)
         /\ call.xs[1] \in {OpRef("eq"), OpRef("equals"), OpRef("equal")} =>
              /\ r.ok /\ r.node = Equality(FALSE, a.node, b.node)
              /\ alone => (res.ok /\ res.node.Terms[1].Terms[1] = r.node)

\* What an attempt answers, from the kinds of the two operands alone.
CanCompare(self, other) ==
  \/ self.kind = "AstNumber" /\ UseAs(other) = "AstNumber"
  \/ self.kind = "equality" /\ (UseAs(other) = "AstBoolean" \/ UseAsBooleanNode(other))

\* The number of errors a rendering of n records.
RECURSIVE ErrorCount(_)
ErrorCount(n) ==
  CASE n.kind = "equality" ->
         IF CanCompare(n.Left, n.Right) \/ CanCompare(n.Right, n.Left)
         THEN ErrorCount(n.Left) + ErrorCount(n.Right)
         ELSE 1
    [] n.kind = "memberOf" -> ErrorCount(n.Needle) + ErrorCount(n.Haystack)
    [] n.kind = "ASTArray" /\ n.Value # <<>> ->
         ErrorCount(n.Value[1]) + ErrorCount([n EXCEPT !.Value = Tail(@)])
    [] n.kind = "binaryOp" /\ n.Terms # <<>> ->
         ErrorCount(n.Terms[1]) + ErrorCount([n EXCEPT !.Terms = Tail(@)])
    [] OTHER -> 0

PriorErrors == {NewSQLGenerator, AddError(NewSQLGenerator, [msg |-> "earlier"])}

\* C10: an Equality node asks its left operand first, and its right operand
\* only if the left attempt is unsupported; it records an error and renders
\* EqualityError exactly when both attempts are unsupported.  An unsupported
\* attempt leaves the error list as it was: a node resolved by either attempt
\* adds no error of its own, a node resolved by neither adds exactly one.
C10_TwoAttempts ==
  (Called /\ res.ok) =>
    \A e \in EqualityNodes : \A g \in PriorErrors :
      LET r == equalitySQLString(e, g)
          left == EqualsSQLString(e.Left, g, e.Not, e.Right)
          right == EqualsSQLString(e.Right, g, e.Not, e.Left)
          leftOk == SupportsEquality(e.Left) /\ left.ok
          rightOk == SupportsEquality(e.Right) /\ right.ok
          added == Len(r.gen.errors) - Len(g.errors)
      IN /\ r.asked \in {<<>>, <<"left">>, <<"right">>, <<"left", "right">>}
         /\ SupportsEquality(e.Left) => (r.asked # <<>> /\ r.asked[1] = "left")
         /\ "right" \in Range(r.asked) <=> (~leftOk /\ SupportsEquality(e.Right))
         /\ leftOk <=> CanCompare(e.Left, e.Right)
         /\ rightOk <=> CanCompare(e.Right, e.Left)
         /\ (SupportsEquality(e.Left) /\ ~left.ok) => left.gen = g
         /\ (SupportsEquality(e.Right) /\ ~right.ok) => right.gen = g
         /\ r.s = <<"EqualityError">> <=> (~leftOk /\ ~rightOk)
         /\ SubSeq(r.gen.errors, 1, Len(g.errors)) = g.errors
         /\ (leftOk \/ rightOk) =>
              /\ added = ErrorCount(e.Left) + ErrorCount(e.Right)
              /\ r.s = IF leftOk THEN left.s ELSE right.s
         /\ (~leftOk /\ ~rightOk) =>
              r.gen.errors = Append(g.errors, UnsupportedEquality(e.Left, e.Not, e.Right))

C10_Witness ==
  /\ pc = "compiled" /\ res.ok
  /\ \E e \in EqualityNodes :
       /\ equalitySQLString(e, NewSQLGenerator).asked = <<"right">>
       /\ Resolves(e) /\ ErrorsOf(e) # <<>>
  /\ \E e \in EqualityNodes :
       equalitySQLString(e, NewSQLGenerator).asked = <<"left", "right">> /\ ~Resolves(e)
  /\ \E e \in EqualityNodes :
       equalitySQLString(e, NewSQLGenerator).asked = <<"left">>

====
